---- MODULE Spec2Model ----
(***************************************************************************)
(* The message-peek pipeline of pkg/pulsar/subscription.go:                *)
(*   PeekMessages -> peekNthMessage -> handleResp ->                       *)
(*   getIndividualMsgsFromBatch.                                           *)
(*                                                                         *)
(* A string is a sequence of one-character strings, a byte slice a         *)
(* sequence of integers 0..255, a Go map a function on its key set.        *)
(***************************************************************************)
EXTENDS Integers, Sequences, FiniteSets, TLC

VARIABLES
    pc,       \* position of the single goroutine inside PeekMessages / peekNthMessage
    nReq,     \* the n PeekMessages was called with
    n,        \* PeekMessages: remaining count (the parameter n, decremented in place)
    count,    \* PeekMessages: backlog position of the next request
    msgs,     \* PeekMessages: accumulated messages
    reqs,     \* history: positions of the requests issued so far, in order
    yields,   \* history: the message list every successful iteration appended
    open,     \* positions whose *http.Response is not closed yet
    resp,     \* peekNthMessage: the response in hand
    cur,      \* what handleResp returned (or that it panicked)
    result,   \* what PeekMessages returned
    heap      \* the properties maps allocated by handleResp, by position

vars == <<pc, nReq, n, count, msgs, reqs, yields, open, resp, cur, result, heap>>

(***************************************************************************)
(* Bounds of the model.                                                    *)
(***************************************************************************)
\* largest n PeekMessages is called with
MaxN == 5
\* largest backlog position requested before the model stops a run
MaxRequests == 6
\* largest number of records the broker packs into a generated batch body
MaxBatch == 2

(***************************************************************************)
(* Strings.  Text gives every string the program meets in the model its    *)
(* characters; the string functions compute on the characters, and Str     *)
(* turns the characters back into the string.                              *)
(***************************************************************************)
Text ==
    "" :> <<>> @@
    "X-Pulsar-Message-ID" :> <<"X","-","P","u","l","s","a","r","-","M","e","s","s","a","g","e","-","I","D">> @@
    "X-Pulsar-Message-Id" :> <<"X","-","P","u","l","s","a","r","-","M","e","s","s","a","g","e","-","I","d">> @@
    "X-Pulsar-Publish-Time" :> <<"X","-","P","u","l","s","a","r","-","P","u","b","l","i","s","h","-","T","i","m","e">> @@
    "X-Pulsar-Num-Batch-Message" :> <<"X","-","P","u","l","s","a","r","-","N","u","m","-","B","a","t","c","h","-","M","e","s","s","a","g","e">> @@
    "X-Pulsar-PROPERTY-" :> <<"X","-","P","u","l","s","a","r","-","P","R","O","P","E","R","T","Y","-">> @@
    "X-Pulsar-PROPERTY-foo" :> <<"X","-","P","u","l","s","a","r","-","P","R","O","P","E","R","T","Y","-","f","o","o">> @@
    "X-Pulsar-Property-Foo" :> <<"X","-","P","u","l","s","a","r","-","P","r","o","p","e","r","t","y","-","F","o","o">> @@
    "publish-time" :> <<"p","u","b","l","i","s","h","-","t","i","m","e">> @@
    "foo" :> <<"f","o","o">> @@
    "Foo" :> <<"F","o","o">> @@
    "bar" :> <<"b","a","r">> @@
    "3:4" :> <<"3",":","4">> @@
    "17" :> <<"1","7">> @@
    "abc" :> <<"a","b","c">> @@
    "-1" :> <<"-","1">> @@
    "0" :> <<"0">> @@
    "1" :> <<"1">> @@
    "2" :> <<"2">> @@
    "3" :> <<"3">> @@
    "4" :> <<"4">> @@
    "5" :> <<"5">> @@
    "7" :> <<"7">> @@
    "x" :> <<"x">> @@
    "3:x" :> <<"3",":","x">> @@
    "b" :> <<"b">> @@
    "y" :> <<"y">>

Str(chars) == CHOOSE s \in DOMAIN Text : Text[s] = chars

LowerCase == <<"a","b","c","d","e","f","g","h","i","j","k","l","m",
               "n","o","p","q","r","s","t","u","v","w","x","y","z">>
UpperCase == <<"A","B","C","D","E","F","G","H","I","J","K","L","M",
               "N","O","P","Q","R","S","T","U","V","W","X","Y","Z">>
Digits    == <<"0","1","2","3","4","5","6","7","8","9">>

IndexOf(c, s) == IF \E i \in 1..Len(s) : s[i] = c
                 THEN CHOOSE i \in 1..Len(s) : s[i] = c
                 ELSE 0

\* unicode.ToUpper and unicode.ToLower on the letters a-z and A-Z, as tables
UpperOf == [c \in {LowerCase[i] : i \in 1..Len(LowerCase)} |-> UpperCase[IndexOf(c, LowerCase)]]
LowerOf == [c \in {UpperCase[i] : i \in 1..Len(UpperCase)} |-> LowerCase[IndexOf(c, UpperCase)]]

ToUpper(c) == IF c \in DOMAIN UpperOf THEN UpperOf[c] ELSE c
ToLower(c) == IF c \in DOMAIN LowerOf THEN LowerOf[c] ELSE c

\* net/textproto.CanonicalMIMEHeaderKey: the first letter and every letter after
\* a hyphen upper case, every other letter lower case.  http.Header.Get applies
\* it to the key it is given, and the HTTP reader applies it to every header
\* name it stores in resp.Header.
CanonicalChars(s) ==
    [i \in 1..Len(s) |-> IF i = 1 \/ s[i-1] = "-" THEN ToUpper(s[i]) ELSE ToLower(s[i])]

CanonicalMIMEHeaderKey(s) == Str(CanonicalChars(Text[s]))

\* strings.HasPrefix
HasPrefixChars(s, p) == Len(s) >= Len(p) /\ SubSeq(s, 1, Len(p)) = p

\* strings.Contains
ContainsChars(s, p) ==
    \E i \in 0..Len(s) : i + Len(p) <= Len(s) /\ SubSeq(s, i + 1, i + Len(p)) = p

Contains(s, p) == ContainsChars(Text[s], Text[p])

\* strings.TrimPrefix
TrimPrefix(s, p) ==
    IF HasPrefixChars(Text[s], Text[p])
    THEN Str(SubSeq(Text[s], Len(Text[p]) + 1, Len(Text[s])))
    ELSE s

RECURSIVE DigitsValue(_)
DigitsValue(s) ==
    IF s = <<>> THEN 0
    ELSE 10 * DigitsValue(SubSeq(s, 1, Len(s) - 1)) + (IndexOf(s[Len(s)], Digits) - 1)

\* strconv.Atoi: an optional sign, then one or more decimal digits.
AtoiChars(s) ==
    LET signed == Len(s) > 0 /\ s[1] \in {"+", "-"}
        digs   == IF signed THEN Tail(s) ELSE s
    IN  IF digs = <<>> \/ \E i \in 1..Len(digs) : IndexOf(digs[i], Digits) = 0
        THEN [ok |-> FALSE, val |-> 0]
        ELSE [ok |-> TRUE,
              val |-> IF signed /\ s[1] = "-" THEN 0 - DigitsValue(digs) ELSE DigitsValue(digs)]

Atoi(s) == AtoiChars(Text[s])

\* strings.Split(s, ":"), on the characters
RECURSIVE SplitColon(_)
SplitColon(s) ==
    IF \E i \in 1..Len(s) : s[i] = ":"
    THEN LET i == CHOOSE j \in 1..Len(s) : s[j] = ":" /\ \A l \in 1..(j-1) : s[l] /= ":"
         IN  <<SubSeq(s, 1, i - 1)>> \o SplitColon(SubSeq(s, i + 1, Len(s)))
    ELSE <<s>>

(***************************************************************************)
(* Go maps.                                                                *)
(***************************************************************************)
EmptyMap == [k \in {} |-> ""]

MapPut(m, k, v) == [x \in (DOMAIN m) \cup {k} |-> IF x = k THEN v ELSE m[x]]

\* m[k] of a map[string]string: the empty string for a missing key
MapGet(m, k) == IF k \in DOMAIN m THEN m[k] ELSE ""

\* resp.Header.Get(k): the value stored under the canonical form of k
HeaderGet(h, k) == MapGet(h, CanonicalMIMEHeaderKey(k))

(***************************************************************************)
(* Bytes.                                                                  *)
(***************************************************************************)
\* string(b) for a byte of the ASCII range the model uses
Chr(b) == IF b \in 97..122 THEN LowerCase[b - 96]
          ELSE IF b \in 65..90 THEN UpperCase[b - 64]
          ELSE IF b \in 48..57 THEN Digits[b - 47]
          ELSE IF b = 45 THEN "-"
          ELSE "?"

Ord(c) == IF IndexOf(c, LowerCase) > 0 THEN 96 + IndexOf(c, LowerCase)
          ELSE IF IndexOf(c, UpperCase) > 0 THEN 64 + IndexOf(c, UpperCase)
          ELSE IF IndexOf(c, Digits) > 0 THEN 47 + IndexOf(c, Digits)
          ELSE IF c = "-" THEN 45
          ELSE 63

BytesToString(b) == Str([i \in 1..Len(b) |-> Chr(b[i])])
StringToBytes(s) == [i \in 1..Len(Text[s]) |-> Ord(Text[s][i])]

\* binary.BigEndian.Uint32
BigEndianUint32(b) == b[1] * 16777216 + b[2] * 65536 + b[3] * 256 + b[4]

\* binary.BigEndian.PutUint32, the broker's side of the length prefix
BigEndianPutUint32(v) ==
    <<(v \div 16777216) % 256, (v \div 65536) % 256, (v \div 256) % 256, v % 256>>

\* io.ReadFull(rdBuf, buf) with len(buf) = size, the reader standing at offset
\* off of data: all size bytes or an error (io.EOF when nothing is left,
\* io.ErrUnexpectedEOF after a partial read); a read of zero bytes succeeds.
ReadFull(data, off, size) ==
    IF off + size <= Len(data)
    THEN [err |-> "nil", bytes |-> SubSeq(data, off + 1, off + size), off |-> off + size]
    ELSE [err |-> IF off = Len(data) THEN "EOF" ELSE "unexpected EOF",
          bytes |-> SubSeq(data, off + 1, Len(data)), off |-> Len(data)]

\* singlePayload filled by a plain rdBuf.Read: what is left is copied, the
\* rest of the buffer stays zero, and a short read is no error
ReadPayloadShort(data, off, size) ==
    IF off + size <= Len(data)
    THEN [err |-> "nil", bytes |-> SubSeq(data, off + 1, off + size), off |-> off + size]
    ELSE [err |-> "nil",
          bytes |-> SubSeq(data, off + 1, Len(data)) \o [i \in 1..(off + size - Len(data)) |-> 0],
          off |-> Len(data)]

\* lines 260-263: singlePayload := make([]byte, size); io.ReadFull(rdBuf, singlePayload)
ReadPayload(data, off, size) == ReadFull(data, off, size)

(***************************************************************************)
(* The per-message metadata record.  utils.SingleMessageMetadata is a      *)
(* protobuf message; the model reads the two fields the code uses, in      *)
(* their protobuf wire form with one-byte lengths and varints:             *)
(*   field 1, properties (repeated KeyValue): 0x0A len <KeyValue>          *)
(*       KeyValue: 0x0A len key  0x12 len value                            *)
(*   field 3, payload_size (required int32): 0x18 varint                   *)
(* Any other tag byte is a decode error.                                   *)
(***************************************************************************)
UnmarshalKeyValue(b) ==
    IF /\ Len(b) >= 2
       /\ b[1] = 10
       /\ Len(b) >= 4 + b[2]
       /\ b[3 + b[2]] = 18
       /\ Len(b) = 4 + b[2] + b[4 + b[2]]
    THEN [ok |-> TRUE,
          Key |-> BytesToString(SubSeq(b, 3, 2 + b[2])),
          Value |-> BytesToString(SubSeq(b, 5 + b[2], Len(b)))]
    ELSE [ok |-> FALSE, Key |-> "", Value |-> ""]

RECURSIVE UnmarshalFields(_, _, _, _)
UnmarshalFields(buf, pos, props, size) ==
    IF pos > Len(buf)
    THEN \* payload_size is a required field
         [ok |-> size >= 0, Properties |-> props, PayloadSize |-> size]
    ELSE IF buf[pos] = 10 /\ pos + 1 <= Len(buf) /\ pos + 1 + buf[pos + 1] <= Len(buf)
    THEN LET kv == UnmarshalKeyValue(SubSeq(buf, pos + 2, pos + 1 + buf[pos + 1]))
         IN  IF kv.ok
             THEN UnmarshalFields(buf, pos + 2 + buf[pos + 1],
                                  Append(props, [Key |-> kv.Key, Value |-> kv.Value]), size)
             ELSE [ok |-> FALSE, Properties |-> <<>>, PayloadSize |-> 0]
    ELSE IF buf[pos] = 24 /\ pos + 1 <= Len(buf) /\ buf[pos + 1] < 128
    THEN UnmarshalFields(buf, pos + 2, props, buf[pos + 1])
    ELSE [ok |-> FALSE, Properties |-> <<>>, PayloadSize |-> 0]

\* proto.Unmarshal(singleMetaBuf, singleMeta)
Unmarshal(buf) == UnmarshalFields(buf, 1, <<>>, -1)

\* The broker's side: one sub-message [props, payload] as a batch record
\* [4-byte big-endian length][metadata][payload].
EncodeKeyValue(kv) ==
    <<10, Len(StringToBytes(kv.Key))>> \o StringToBytes(kv.Key)
    \o <<18, Len(StringToBytes(kv.Value))>> \o StringToBytes(kv.Value)

RECURSIVE EncodeProperties(_)
EncodeProperties(props) ==
    IF props = <<>> THEN <<>>
    ELSE <<10, Len(EncodeKeyValue(Head(props)))>> \o EncodeKeyValue(Head(props))
         \o EncodeProperties(Tail(props))

EncodeMeta(sub) == EncodeProperties(sub.props) \o <<24, Len(sub.payload)>>

EncodeRecord(sub) ==
    BigEndianPutUint32(Len(EncodeMeta(sub))) \o EncodeMeta(sub) \o sub.payload

RECURSIVE EncodeBatch(_)
EncodeBatch(subs) ==
    IF subs = <<>> THEN <<>> ELSE EncodeRecord(Head(subs)) \o EncodeBatch(Tail(subs))

(***************************************************************************)
(* Header names and the message ID.                                        *)
(***************************************************************************)
MessageIDHeader   == "X-Pulsar-Message-ID"
PublishTimeHeader == "X-Pulsar-Publish-Time"
BatchHeader       == "X-Pulsar-Num-Batch-Message"
PropertyPrefix    == "X-Pulsar-PROPERTY-"
\* the key "publish-time" of line 202
PublishTimeKey    == "publish-time"

\* utils.ParseMessageID: "ledgerID:entryID[:partitionIndex[:batchIndex]]"
ParseMessageID(str) ==
    LET s == SplitColon(Text[str])
        bad == [ok |-> FALSE, ID |-> [LedgerID |-> 0, EntryID |-> 0, PartitionIdx |-> 0, BatchIndex |-> 0]]
    IN  IF Len(s) < 2 \/ Len(s) > 4 THEN bad
        ELSE IF \E i \in 1..Len(s) : ~AtoiChars(s[i]).ok THEN bad
        ELSE [ok |-> TRUE,
              ID |-> [LedgerID     |-> AtoiChars(s[1]).val,
                      EntryID      |-> AtoiChars(s[2]).val,
                      PartitionIdx |-> IF Len(s) > 2 THEN AtoiChars(s[3]).val ELSE -1,
                      BatchIndex   |-> IF Len(s) = 4 THEN AtoiChars(s[4]).val ELSE -1]]

(***************************************************************************)
(* getIndividualMsgsFromBatch and handleResp.  A result is                 *)
(*   msgs        the returned slice (<<>> for nil),                        *)
(*   err         the returned error ("nil" for none),                      *)
(*   panic       TRUE when the call ended in a run-time panic,             *)
(*   properties  the final content of the map allocated at line 196,       *)
(*   shared      history: that map's content when the batch was entered,   *)
(*   batched     history: whether getIndividualMsgsFromBatch was called.   *)
(* A Message holds its MessageID by value and its Properties as a          *)
(* reference (Go map): ref names the map, heap[ref] is its content.        *)
(***************************************************************************)
Topic == "persistent://public/default/topic"

NoMessages(e, batched, shared) ==
    [msgs |-> <<>>, err |-> e, panic |-> FALSE,
     properties |-> shared, shared |-> shared, batched |-> batched]

\* line 233: msgID.BatchIndex = i
SetBatchIndexStale(msgID, i) == msgID
SetBatchIndex(msgID, i) == [msgID EXCEPT !.BatchIndex = i]

\* lines 251-257: every declared property is written into the one map
RECURSIVE MergeProperties(_, _)
MergeProperties(properties, list) ==
    IF list = <<>> THEN properties
    ELSE MergeProperties(MapPut(properties, Head(list).Key, Head(list).Value), Tail(list))

\* lines 232-271, from iteration i on; off is the reader's offset into data
RECURSIVE BatchLoop(_, _, _, _, _, _, _, _, _)
BatchLoop(i, batchSize, msgID, data, off, properties, acc, ref, shared) ==
    IF i >= batchSize
    THEN [msgs |-> acc, err |-> "nil", panic |-> FALSE,
          properties |-> properties, shared |-> shared, batched |-> TRUE]
    ELSE
    LET id == SetBatchIndex(msgID, i)
        r1 == ReadFull(data, off, 4)
    IN  IF r1.err /= "nil" THEN NoMessages(r1.err, TRUE, shared)
        ELSE
        LET singleMetaSize == BigEndianUint32(r1.bytes)
            r2 == ReadFull(data, r1.off, singleMetaSize)
        IN  IF r2.err /= "nil" THEN NoMessages(r2.err, TRUE, shared)
            ELSE
            LET singleMeta == Unmarshal(r2.bytes)
            IN  IF ~singleMeta.ok THEN NoMessages("proto: cannot parse", TRUE, shared)
                ELSE
                LET merged == MergeProperties(properties, singleMeta.Properties)
                    r3 == ReadPayload(data, r2.off, singleMeta.PayloadSize)
                IN  IF r3.err /= "nil" THEN NoMessages(r3.err, TRUE, shared)
                    ELSE BatchLoop(i + 1, batchSize, id, data, r3.off, merged,
                                   Append(acc, [Topic      |-> Topic,
                                                MessageID  |-> id,
                                                Payload    |-> r3.bytes,
                                                Properties |-> ref]),
                                   ref, shared)

\* lines 219-274
getIndividualMsgsFromBatch(msgID, data, properties, ref) ==
    LET batchSize == Atoi(MapGet(properties, BatchHeader))
    IN  IF ~batchSize.ok
        THEN \* line 224: return nil, nil
             NoMessages("nil", TRUE, properties)
        ELSE IF batchSize.val < 0
        THEN \* line 227: make([]*utils.Message, 0, batchSize) panics, cap out of range
             [msgs |-> <<>>, err |-> "nil", panic |-> TRUE,
              properties |-> properties, shared |-> properties, batched |-> TRUE]
        ELSE BatchLoop(0, batchSize.val, msgID, data, 0, properties, <<>>, ref, properties)

\* utils.NewMessage(topic, id, payload, properties)
NewMessage(topic, id, payload, ref) ==
    [Topic |-> topic, MessageID |-> id, Payload |-> payload, Properties |-> ref]

\* lines 197-216: the range over resp.Header, visiting the keys in the order
\* given (Go leaves the iteration order of a map unspecified), from index i on
RECURSIVE ScanHeaders(_, _, _, _, _, _)
ScanHeaders(r, ID, order, i, properties, ref) ==
    IF i > Len(order)
    THEN [msgs |-> <<NewMessage(Topic, ID, r.Body, ref)>>, err |-> "nil", panic |-> FALSE,
          properties |-> properties, shared |-> properties, batched |-> FALSE]
    ELSE
    LET k == order[i]
        h == HeaderGet(r.Header, k)
    IN  IF k = PublishTimeHeader
        THEN ScanHeaders(r, ID, order, i + 1,
                         IF h /= "" THEN MapPut(properties, PublishTimeKey, h) ELSE properties,
                         ref)
        ELSE IF k = BatchHeader
        THEN getIndividualMsgsFromBatch(ID, r.Body,
                         IF h /= "" THEN MapPut(properties, BatchHeader, h) ELSE properties,
                         ref)
        ELSE IF Contains(k, PropertyPrefix)
        THEN ScanHeaders(r, ID, order, i + 1,
                         MapPut(properties, TrimPrefix(k, PropertyPrefix), h), ref)
        ELSE ScanHeaders(r, ID, order, i + 1, properties, ref)

\* lines 183-217
handleResp(r, order, ref) ==
    LET parsed == ParseMessageID(HeaderGet(r.Header, MessageIDHeader))
    IN  IF ~parsed.ok THEN NoMessages("invalid message id", FALSE, EmptyMap)
        ELSE IF r.readErr THEN NoMessages("body read error", FALSE, EmptyMap)
        ELSE ScanHeaders(r, parsed.ID, order, 1, EmptyMap, ref)

\* the orders in which a range over a map with key set S can visit the keys
Orders(S) ==
    {o \in [1..Cardinality(S) -> S] : \A i, j \in 1..Cardinality(S) : o[i] = o[j] => i = j}

(***************************************************************************)
(* The broker's responses.  A response on the wire is                      *)
(*   Header   header name as sent -> value,                                *)
(*   Body     the body bytes,                                              *)
(*   readErr  whether reading the body fails,                              *)
(* with the history of how the body was made: subs, the sub-messages       *)
(* encoded; cut, how many bytes of the encoding were sent; damaged,        *)
(* whether a metadata tag byte was overwritten.                            *)
(***************************************************************************)
\* strconv.Itoa for i >= 0, the broker's rendering of the batch size
RECURSIVE ItoaChars(_)
ItoaChars(i) ==
    IF i < 10 THEN <<Digits[i + 1]>> ELSE ItoaChars(i \div 10) \o <<Digits[(i % 10) + 1]>>

Itoa(i) == Str(ItoaChars(i))

\* the custom-property header of the property foo, as the broker sends it
WireFooHeader == "X-Pulsar-PROPERTY-foo"
FooKey   == "foo"
BarValue == "bar"

GoodID      == "3:4"
PublishTime == "17"

\* each argument is the set of the header's values: empty for an absent header
MkHeader(id, pub, batch, foo) ==
    LET given == [k \in {MessageIDHeader, PublishTimeHeader, BatchHeader, WireFooHeader} |->
                    IF k = MessageIDHeader THEN id
                    ELSE IF k = PublishTimeHeader THEN pub
                    ELSE IF k = BatchHeader THEN batch
                    ELSE foo]
    IN  [k \in {x \in DOMAIN given : given[x] /= {}} |-> CHOOSE v \in given[k] : TRUE]

S1 == [props |-> <<>>, payload |-> <<7>>]
S2 == [props |-> <<[Key |-> FooKey, Value |-> "x"]>>, payload |-> <<>>]
S3 == [props |-> <<[Key |-> "b", Value |-> "y"]>>, payload |-> <<8, 9>>]
SubKinds == {S1, S2, S3}

SeqsUpTo(S, k) == UNION {[1..m -> S] : m \in 0..k}

\* the tag byte of the first record's metadata overwritten by 0xFF
Damage(body) == [body EXCEPT ![5] = 255]

Bodies ==
    {[subs |-> s, cut |-> c, damaged |-> FALSE, Body |-> SubSeq(EncodeBatch(s), 1, c)] :
        <<s, c>> \in {x \in SeqsUpTo(SubKinds, MaxBatch) \X (0..(16 * MaxBatch)) :
                        x[2] <= Len(EncodeBatch(x[1]))}}
    \cup
    {[subs |-> s, cut |-> Len(EncodeBatch(s)), damaged |-> TRUE, Body |-> Damage(EncodeBatch(s))] :
        s \in SeqsUpTo(SubKinds, MaxBatch) \ {<<>>}}

BatchValues ==
    {"", "abc", "-1"} \cup {Itoa(i) : i \in 0..(MaxBatch + 1)}

WireResponse(header, b, readErr) ==
    [Header |-> header, Body |-> b.Body, readErr |-> readErr,
     subs |-> b.subs, cut |-> b.cut, damaged |-> b.damaged]

\* the whole encoding of the sub-messages s
EncodedBody(s) ==
    [subs |-> s, cut |-> Len(EncodeBatch(s)), damaged |-> FALSE, Body |-> EncodeBatch(s)]

PlainBody == [subs |-> <<>>, cut |-> 0, damaged |-> FALSE, Body |-> <<7>>]

RichResponses ==
    \* a valid message ID, a decimal batch size, every generated body
    {WireResponse(MkHeader({GoodID}, {}, {Itoa(k)}, foo), b, FALSE) :
        k \in 0..(MaxBatch + 1),
        foo \in {{}, {BarValue}},
        b \in Bodies}
    \cup
    \* a valid message ID, every header combination
    {WireResponse(MkHeader({GoodID}, pub, batch, foo), b, FALSE) :
        pub \in {{}, {""}, {PublishTime}},
        batch \in {{}} \cup {{v} : v \in BatchValues},
        foo \in {{}, {BarValue}},
        b \in {PlainBody, EncodedBody(<<S3, S2>>), EncodedBody(<<>>)}}
    \cup
    \* a missing or malformed message ID
    {WireResponse(MkHeader(id, {PublishTime}, batch, foo), PlainBody, FALSE) :
        id \in {{}, {""}, {"x"}, {"7"}, {"3:x"}},
        batch \in {{}, {Itoa(1)}},
        foo \in {{}, {BarValue}}}
    \cup
    \* a body that cannot be read
    {WireResponse(MkHeader({GoodID}, {PublishTime}, batch, {}), PlainBody, TRUE) :
        batch \in {{}, {Itoa(1)}}}

\* the responses the backlog positions of a peek answer with
PeekMenu ==
    { WireResponse(MkHeader({GoodID}, {PublishTime}, {}, {}), PlainBody, FALSE),
      WireResponse(MkHeader({GoodID}, {}, {Itoa(3)}, {}),
                   [subs |-> <<S1, S2, S3>>, cut |-> Len(EncodeBatch(<<S1, S2, S3>>)),
                    damaged |-> FALSE, Body |-> EncodeBatch(<<S1, S2, S3>>)], FALSE),
      WireResponse(MkHeader({GoodID}, {}, {Itoa(0)}, {}),
                   [subs |-> <<>>, cut |-> 0, damaged |-> FALSE, Body |-> <<>>], FALSE),
      WireResponse(MkHeader({GoodID}, {}, {"abc"}, {}),
                   [subs |-> <<S1>>, cut |-> Len(EncodeBatch(<<S1>>)),
                    damaged |-> FALSE, Body |-> EncodeBatch(<<S1>>)], FALSE),
      WireResponse(MkHeader({GoodID}, {}, {"-1"}, {}),
                   [subs |-> <<>>, cut |-> 0, damaged |-> FALSE, Body |-> <<>>], FALSE),
      WireResponse(MkHeader({GoodID}, {}, {Itoa(2)}, {}),
                   [subs |-> <<S1, S3>>, cut |-> Len(EncodeBatch(<<S1, S3>>)) - 1,
                    damaged |-> FALSE,
                    Body |-> SubSeq(EncodeBatch(<<S1, S3>>), 1, Len(EncodeBatch(<<S1, S3>>)) - 1)],
                   FALSE),
      WireResponse(MkHeader({GoodID}, {}, {Itoa(1)}, {}),
                   [subs |-> <<S1>>, cut |-> Len(EncodeBatch(<<S1>>)),
                    damaged |-> TRUE, Body |-> Damage(EncodeBatch(<<S1>>))], FALSE),
      WireResponse(MkHeader({}, {PublishTime}, {}, {}), PlainBody, FALSE),
      WireResponse(MkHeader({GoodID}, {PublishTime}, {}, {}), PlainBody, TRUE) }

\* line 168: the response as doRequest hands it over; the HTTP reader stores
\* every header under the canonical form of its name
Deliver(w) ==
    [Header   |-> [k \in {CanonicalMIMEHeaderKey(x) : x \in DOMAIN w.Header} |->
                      w.Header[CHOOSE x \in DOMAIN w.Header : CanonicalMIMEHeaderKey(x) = k]],
     wire     |-> w.Header,
     Body     |-> w.Body,
     readErr  |-> w.readErr,
     subs     |-> w.subs,
     cut      |-> w.cut,
     damaged  |-> w.damaged]

(***************************************************************************)
(* PeekMessages and peekNthMessage, one goroutine.  pc:                    *)
(*   "idle"   PeekMessages not called yet                                  *)
(*   "loop"   at the loop test of line 147                                 *)
(*   "resp"   line 172 passed: a response is in hand, its close deferred   *)
(*   "defer"  handleResp has returned or panicked, the deferred close runs *)
(*   "ret"    peekNthMessage has returned to line 148                      *)
(*   "done"   PeekMessages has returned                                    *)
(*   "panic"  the panic has left PeekMessages                              *)
(***************************************************************************)
NoResp   == [Header |-> EmptyMap, wire |-> EmptyMap, Body |-> <<>>, readErr |-> FALSE,
             subs |-> <<>>, cut |-> 0, damaged |-> FALSE]
NoResult == [msgs |-> <<>>, err |-> "nil", panic |-> FALSE,
             properties |-> EmptyMap, shared |-> EmptyMap, batched |-> FALSE]
NoReturn == [returned |-> FALSE, msgs |-> <<>>, err |-> "nil"]

\* line 150: return nil, err
ReturnPartial(m, err) == [returned |-> TRUE, msgs |-> m, err |-> err]
ReturnOnError(m, err) == [returned |-> TRUE, msgs |-> <<>>, err |-> err]

\* line 153: n -= len(m)
NextRemainingByOne(remaining, m) == remaining - 1
NextRemaining(remaining, m) == remaining - Len(m)

\* line 172: the deferred safeRespClose(resp)
safeRespCloseSkipped(o, p) == o
safeRespClose(o, p) == o \ {p}

Init ==
    /\ pc = "idle"
    /\ nReq = 0
    /\ n = 0
    /\ count = 0
    /\ msgs = <<>>
    /\ reqs = <<>>
    /\ yields = <<>>
    /\ open = {}
    /\ resp = NoResp
    /\ cur = NoResult
    /\ result = NoReturn
    /\ heap = EmptyMap

\* lines 143-146: PeekMessages(topic, sName, k) is entered
Call ==
    /\ pc = "idle"
    /\ \E k \in 0..MaxN :
        /\ nReq' = k
        /\ n' = k
    /\ count' = 1
    /\ msgs' = <<>>
    /\ pc' = "loop"
    /\ UNCHANGED <<reqs, yields, open, resp, cur, result, heap>>

\* lines 147, 157: the loop test fails, return msgs, nil
Return ==
    /\ pc = "loop"
    /\ n <= 0
    /\ result' = [returned |-> TRUE, msgs |-> msgs, err |-> "nil"]
    /\ pc' = "done"
    /\ UNCHANGED <<nReq, n, count, msgs, reqs, yields, open, resp, cur, heap>>

\* lines 148, 161-171, 149-151: the request for position count fails in
\* newRequest, in the transport or on a non-2xx status; peekNthMessage returns
\* the error with no response in hand, and PeekMessages returns it
RequestFails ==
    /\ pc = "loop"
    /\ n > 0
    /\ count <= MaxRequests
    /\ reqs' = Append(reqs, count)
    /\ result' = ReturnOnError(msgs, "transport error")
    /\ pc' = "done"
    /\ UNCHANGED <<nReq, n, count, msgs, yields, open, resp, cur, heap>>

\* lines 148, 161-172: the request for position count succeeds
Request ==
    /\ pc = "loop"
    /\ n > 0
    /\ count <= MaxRequests
    /\ \E w \in PeekMenu : resp' = Deliver(w)
    /\ reqs' = Append(reqs, count)
    /\ open' = open \cup {count}
    /\ pc' = "resp"
    /\ UNCHANGED <<nReq, n, count, msgs, yields, cur, result, heap>>

\* line 174: handleResp(topic, resp)
HandleResp ==
    /\ pc = "resp"
    /\ \E order \in Orders(DOMAIN resp.Header) :
        cur' = handleResp(resp, order, count)
    /\ heap' = MapPut(heap, count, cur'.properties)
    /\ pc' = "defer"
    /\ UNCHANGED <<nReq, n, count, msgs, reqs, yields, open, resp, result>>

\* line 172: the deferred close runs when peekNthMessage returns or panics
DeferredClose ==
    /\ pc = "defer"
    /\ open' = safeRespClose(open, count)
    /\ pc' = IF cur.panic THEN "panic" ELSE "ret"
    /\ UNCHANGED <<nReq, n, count, msgs, reqs, yields, resp, cur, result, heap>>

\* lines 149-151: peekNthMessage returned an error
Abort ==
    /\ pc = "ret"
    /\ cur.err /= "nil"
    /\ result' = ReturnOnError(msgs, cur.err)
    /\ pc' = "done"
    /\ UNCHANGED <<nReq, n, count, msgs, reqs, yields, open, resp, cur, heap>>

\* lines 152-154: append, decrement, next position
Accumulate ==
    /\ pc = "ret"
    /\ cur.err = "nil"
    /\ msgs' = msgs \o cur.msgs
    /\ n' = NextRemaining(n, cur.msgs)
    /\ count' = count + 1
    /\ yields' = Append(yields, cur.msgs)
    /\ pc' = "loop"
    /\ UNCHANGED <<nReq, reqs, open, resp, cur, result, heap>>

Next ==
    \/ Call
    \/ Return
    \/ RequestFails
    \/ Request
    \/ HandleResp
    \/ DeferredClose
    \/ Abort
    \/ Accumulate

Spec == Init /\ [][Next]_vars

(***************************************************************************)
(* One call of peekNthMessage on any response of RichResponses: the        *)
(* specification the claims about handleResp and                           *)
(* getIndividualMsgsFromBatch are checked under.                           *)
(***************************************************************************)
InitResp ==
    /\ pc = "resp"
    /\ nReq = 1
    /\ n = 1
    /\ count = 1
    /\ msgs = <<>>
    /\ reqs = <<1>>
    /\ yields = <<>>
    /\ open = {1}
    /\ resp \in {Deliver(w) : w \in RichResponses}
    /\ cur = NoResult
    /\ result = NoReturn
    /\ heap = EmptyMap

NextResp ==
    \/ HandleResp
    \/ DeferredClose

SpecResp == InitResp /\ [][NextResp]_vars

(***************************************************************************)
(* What the claims speak about.                                            *)
(***************************************************************************)
\* the Properties of a returned Message, read through its map reference
PropsOf(m) == heap[m.Properties]

\* handleResp has run on resp
Handled == pc \in {"defer", "ret", "panic"}

WireHas(k) == k \in DOMAIN resp.wire

\* the response has a valid message-ID header and a readable body
GoodResp == WireHas(MessageIDHeader) /\ resp.wire[MessageIDHeader] = GoodID /\ ~resp.readErr

\* the batch-size header is a decimal number
Declared == WireHas(BatchHeader) /\ Atoi(resp.wire[BatchHeader]).ok
DeclaredSize == Atoi(resp.wire[BatchHeader]).val

\* the body holds the first k records the broker encoded, whole and undamaged
HoldsRecords(k) ==
    /\ k <= Len(resp.subs)
    /\ resp.cut >= Len(EncodeBatch(SubSeq(resp.subs, 1, k)))
    /\ (k = 0 \/ ~resp.damaged)

\* the body ends inside, or before, one of the first k records
Truncated(k) ==
    /\ ~resp.damaged
    /\ Len(resp.Body) = resp.cut
    /\ \/ k > Len(resp.subs)
       \/ resp.cut < Len(EncodeBatch(SubSeq(resp.subs, 1, k)))

Succeeded == cur.err = "nil" /\ ~cur.panic

RECURSIVE Concat(_)
Concat(ss) == IF ss = <<>> THEN <<>> ELSE Head(ss) \o Concat(Tail(ss))

\* the number of messages of the first k yields
Cumulative(k) == Len(Concat(SubSeq(yields, 1, k)))

\* C2: a batched response declaring k >= 0 whose body holds k well-formed
\* records yields exactly k Messages, the i-th (0-indexed) with BatchIndex i,
\* all with the ledger/entry coordinate of the message-ID header.
C2_BatchIndex ==
    (Handled /\ GoodResp /\ Declared /\ DeclaredSize >= 0 /\ HoldsRecords(DeclaredSize))
    => /\ Succeeded
       /\ Len(cur.msgs) = DeclaredSize
       /\ \A i \in 1..Len(cur.msgs) :
            /\ cur.msgs[i].MessageID.BatchIndex = i - 1
            /\ cur.msgs[i].MessageID.LedgerID = ParseMessageID(resp.wire[MessageIDHeader]).ID.LedgerID
            /\ cur.msgs[i].MessageID.EntryID = ParseMessageID(resp.wire[MessageIDHeader]).ID.EntryID

C2_Witness ==
    /\ pc = "ret" /\ GoodResp /\ Declared /\ DeclaredSize = 2 /\ HoldsRecords(2)
    /\ Len(cur.msgs) = 2
    /\ cur.msgs[1].MessageID.BatchIndex = 0
    /\ cur.msgs[2].MessageID.BatchIndex = 1

\* C3 as claimed: decoding a batch of k encoded sub-messages gives Message i
\* the i-th payload and, as Properties, the shared properties overlaid by the
\* i-th sub-message's own properties only.
C3_RoundTrip ==
    (Handled /\ GoodResp /\ Declared /\ DeclaredSize >= 0 /\ HoldsRecords(DeclaredSize)
        /\ Succeeded /\ Len(cur.msgs) = DeclaredSize)
    => \A i \in 1..Len(cur.msgs) :
         /\ cur.msgs[i].Payload = resp.subs[i].payload
         /\ PropsOf(cur.msgs[i]) = MergeProperties(cur.shared, resp.subs[i].props)

DeclaresFoo(i) ==
    /\ cur.batched
    /\ i <= Len(resp.subs)
    /\ \E j \in 1..Len(resp.subs[i].props) : resp.subs[i].props[j].Key = FooKey

\* C4 as claimed: a custom-property header <prefix>foo: bar gives every
\* Message of the response the entry foo -> bar, unless the sub-message
\* declares foo itself.
C4_CustomProperty ==
    (Handled /\ GoodResp /\ WireHas(WireFooHeader) /\ Succeeded)
    => \A i \in 1..Len(cur.msgs) :
         \/ DeclaresFoo(i)
         \/ /\ FooKey \in DOMAIN PropsOf(cur.msgs[i])
            /\ PropsOf(cur.msgs[i])[FooKey] = resp.wire[WireFooHeader]

\* C6 as claimed: a batch-size header that is no valid non-negative integer
\* yields zero messages, no error and no crash.
C6_InvalidBatchSize ==
    (Handled /\ GoodResp /\ WireHas(BatchHeader) /\ (~Declared \/ DeclaredSize < 0))
    => cur.msgs = <<>> /\ cur.err = "nil" /\ ~cur.panic

\* C7: when the body ends inside or before one of the k declared records the
\* batch fails with an error and no messages; a successful result holds k
\* messages, each with its whole payload.
C7_Truncated ==
    (Handled /\ GoodResp /\ Declared /\ DeclaredSize >= 0)
    => /\ Truncated(DeclaredSize) => (cur.err /= "nil" /\ cur.msgs = <<>>)
       /\ Succeeded =>
            /\ Len(cur.msgs) = DeclaredSize
            /\ ~resp.damaged /\ Len(resp.Body) = resp.cut =>
                 \A i \in 1..Len(cur.msgs) :
                    i <= Len(resp.subs) /\ cur.msgs[i].Payload = resp.subs[i].payload

C7_Witness ==
    /\ pc = "ret" /\ GoodResp /\ Declared /\ DeclaredSize = 2
    /\ resp.subs = <<S1, S3>>
    /\ resp.cut = Len(EncodeBatch(resp.subs)) - 1
    /\ cur.err = "unexpected EOF"
    /\ cur.msgs = <<>>

ExpectedProperties ==
    LET p1 == IF WireHas(PublishTimeHeader) /\ resp.wire[PublishTimeHeader] /= ""
              THEN MapPut(EmptyMap, PublishTimeKey, resp.wire[PublishTimeHeader])
              ELSE EmptyMap
    IN  IF WireHas(WireFooHeader) THEN MapPut(p1, FooKey, resp.wire[WireFooHeader]) ELSE p1

\* C8 as claimed: a response without the batch-size header, or with an empty
\* one, yields exactly one Message with the whole body as Payload and the
\* publish-time and custom-property entries as Properties.
C8_NonBatched ==
    (Handled /\ GoodResp /\ (~WireHas(BatchHeader) \/ resp.wire[BatchHeader] = ""))
    => /\ Succeeded
       /\ Len(cur.msgs) = 1
       /\ cur.msgs[1].Payload = resp.Body
       /\ PropsOf(cur.msgs[1]) = ExpectedProperties

\* C1: a successful PeekMessages with n > 0 has requested the positions
\* 1, 2, 3, ... one by one, has stopped right after the first request at which
\* the messages returned so far reached n, and returns the responses' messages
\* concatenated in position order.
C1_PeekOrder ==
    /\ reqs = [i \in 1..Len(reqs) |-> i]
    /\ (nReq > 0 /\ Len(reqs) > Len(yields)) => Cumulative(Len(yields)) < nReq
    /\ (result.returned /\ result.err = "nil" /\ nReq > 0)
       => /\ Len(reqs) = Len(yields)
          /\ Cumulative(Len(yields)) >= nReq
          /\ Cumulative(Len(yields) - 1) < nReq
          /\ result.msgs = Concat(yields)
          /\ (\A i \in 1..Len(yields) : Len(yields[i]) = 1)
             => (Len(reqs) = nReq /\ Len(result.msgs) = nReq)
          /\ (nReq = 5 /\ Len(yields[1]) = 3 /\ \A i \in 2..Len(yields) : Len(yields[i]) = 1)
             => (Len(reqs) = 3 /\ Len(result.msgs) = 5)

C1_Witness ==
    /\ result.returned /\ result.err = "nil" /\ nReq = 5
    /\ reqs = <<1, 2, 3>>
    /\ Len(yields[1]) = 3 /\ Len(yields[2]) = 1 /\ Len(yields[3]) = 1
    /\ Len(result.msgs) = 5

\* C5: when the request or the decoding at a position fails, PeekMessages
\* returns the error with no messages, and the failed request is the last
\* request issued.
C5_AllOrNothing ==
    /\ (pc \in {"ret", "done"} /\ cur.err /= "nil") => reqs[Len(reqs)] = Len(yields) + 1
    /\ (result.returned /\ result.err /= "nil")
       => /\ result.msgs = <<>>
          /\ Len(reqs) = Len(yields) + 1
          /\ pc = "done"
          /\ ~ENABLED Next

C5_Witness ==
    /\ result.returned /\ result.err = "unexpected EOF"
    /\ result.msgs = <<>>
    /\ msgs /= <<>>
    /\ Len(reqs) = 3

\* C9 as claimed: PeekMessages issues at most n requests.
C9_AtMostNRequests == nReq > 0 => Len(reqs) <= nReq

\* C10: the response of a position is closed on every way out of
\* peekNthMessage and before the next request: at most one response is open,
\* and none when PeekMessages is between requests or has ended.
C10_Closed ==
    /\ Cardinality(open) <= 1
    /\ pc \in {"resp", "defer"} => open = {count}
    /\ pc \in {"idle", "loop", "ret", "done", "panic"} => open = {}

C10_Witness ==
    /\ pc = "done"
    /\ result.err = "proto: cannot parse"
    /\ Len(reqs) = 2
    /\ open = {}

====
